---------------------------- MODULE Spec2Model ----------------------------
(***************************************************************************)
(* Model of multi-context-auth: context resolution (contextUtils.js),      *)
(* context-scoped cookie access (cookieUtils.js) and token extraction      *)
(* (tokenExtractor.js).                                                    *)
(*                                                                         *)
(* JavaScript values are tagged records.  A JavaScript string is a         *)
(* sequence of lexemes: each lexeme is an indivisible piece of text        *)
(* ("Bearer", " ", "customer", "_token", "://", ...), and two strings are  *)
(* equal exactly when their lexeme sequences are equal.  Concatenation is  *)
(* \o, so a template string such as `${context}_${tokenType}_token` is     *)
(* computed, not looked up.                                                *)
(*                                                                         *)
(* Every function of the library is an operator that yields an outcome:    *)
(* Return(v) when the function returns v, Throw(e) when it raises e.       *)
(***************************************************************************)
EXTENDS Integers, Sequences, FiniteSets, TLC

VARIABLES req, call, ret

vars == <<req, call, ret>>

-----------------------------------------------------------------------------
(* JavaScript values *)

Undefined == [t |-> "undefined"]
Null == [t |-> "null"]
Str(s) == [t |-> "string", s |-> s]
Num(n) == [t |-> "number", n |-> n]
Bool(b) == [t |-> "boolean", b |-> b]
\* an object: props is a function from the names of its own properties
Obj(props) == [t |-> "object", props |-> props]
\* an array: items is the sequence of its elements
Arr(items) == [t |-> "array", items |-> items]

EmptyStr == Str(<<>>)
NoProps == [k \in {} |-> Undefined]

IsString(v) == v.t = "string"
\* typeof v === 'object' (null and arrays included, as in JavaScript)
TypeofObject(v) == v.t \in {"object", "array", "null"}

\* ToBoolean
Truthy(v) ==
    CASE v.t = "undefined" -> FALSE
      [] v.t = "null" -> FALSE
      [] v.t = "string" -> v.s # <<>>
      [] v.t = "number" -> v.n # 0
      [] v.t = "boolean" -> v.b
      [] OTHER -> TRUE

\* String(v), as a template string or a property key converts v
JsString(v) ==
    CASE v.t = "string" -> v.s
      [] v.t = "number" -> <<ToString(v.n)>>
      [] v.t = "boolean" -> IF v.b THEN <<"true">> ELSE <<"false">>
      [] v.t = "null" -> <<"null">>
      [] v.t = "undefined" -> <<"undefined">>
      [] OTHER -> <<"[object Object]">>

\* obj.key, for obj an object or a primitive that is neither null nor
\* undefined: the own property, or undefined
Get(obj, key) ==
    IF obj.t = "object" /\ key \in DOMAIN obj.props THEN obj.props[key]
    ELSE Undefined

\* obj?.key
OptGet(obj, key) ==
    IF obj.t \in {"undefined", "null"} THEN Undefined ELSE Get(obj, key)

\* outcomes of a call
Return(v) == [kind |-> "return", value |-> v]
Throw(e) == [kind |-> "throw", error |-> e]
Returned(o) == o.kind = "return"

-----------------------------------------------------------------------------
(* Strings *)

\* the number of characters of a lexeme sequence
RECURSIVE CharLen(_)
CharLen(s) == IF s = <<>> THEN 0 ELSE Len(Head(s)) + CharLen(Tail(s))

\* String.prototype.startsWith
StartsWith(s, prefix) ==
    /\ Len(s) >= Len(prefix)
    /\ SubSeq(s, 1, Len(prefix)) = prefix

\* String.prototype.substring(n), for n on a lexeme boundary of s
RECURSIVE Substring(_, _)
Substring(s, n) ==
    IF n <= 0 \/ s = <<>> THEN s
    ELSE Substring(Tail(s), n - Len(Head(s)))

WhiteSpace == {" ", "\t"}

RECURSIVE TrimStart(_)
TrimStart(s) ==
    IF s # <<>> /\ Head(s) \in WhiteSpace THEN TrimStart(Tail(s)) ELSE s

RECURSIVE TrimEnd(_)
TrimEnd(s) ==
    IF s # <<>> /\ s[Len(s)] \in WhiteSpace
    THEN TrimEnd(SubSeq(s, 1, Len(s) - 1))
    ELSE s

\* String.prototype.trim
Trim(s) == TrimEnd(TrimStart(s))

-----------------------------------------------------------------------------
(* URLs: scheme "://" host [":" [port]] [("/" | "?" | "#") ...], the host
   being one lexeme or several (labels and the dots between them) *)

Schemes == {"http", "https"}
DefaultPort(scheme) == IF scheme = "https" THEN "443" ELSE "80"
Ports == {"80", "443", "3000", "4200", "4201", "4202", "8080"}
AfterAuthority == {"/", "?", "#"}
Delimiters == {"://", ":", "/", "?", "#"} \cup WhiteSpace

\* the position of the last lexeme of the host that position i is in
RECURSIVE HostEnd(_, _)
HostEnd(s, i) ==
    IF i < Len(s) /\ s[i + 1] \notin Delimiters THEN HostEnd(s, i + 1) ELSE i

\* whether new URL(s) succeeds
UrlParses(s) ==
    /\ Len(s) >= 3
    /\ s[1] \in Schemes
    /\ s[2] = "://"
    /\ s[3] \notin Delimiters
    /\ LET h == HostEnd(s, 3)
       IN  \/ Len(s) = h
           \/ s[h + 1] \in AfterAuthority
           \/ /\ s[h + 1] = ":"
              /\ \/ Len(s) = h + 1
                 \/ s[h + 2] \in AfterAuthority
                 \/ /\ s[h + 2] \in Ports
                    /\ Len(s) = h + 2 \/ s[h + 3] \in AfterAuthority

\* new URL(s).origin, for s that parses: scheme, host and the port unless
\* it is absent or the scheme's default; path, query and fragment dropped
UrlOrigin(s) ==
    LET h == HostEnd(s, 3)
    IN  IF /\ Len(s) >= h + 2
           /\ s[h + 1] = ":"
           /\ s[h + 2] \in Ports
           /\ s[h + 2] # DefaultPort(s[1])
        THEN SubSeq(s, 1, h + 2)
        ELSE SubSeq(s, 1, h)

Url(scheme, host) == <<scheme, "://", host>>
UrlPort(scheme, host, port) == <<scheme, "://", host, ":", port>>

-----------------------------------------------------------------------------
(* contextUtils.js *)

Customer == <<"customer">>
Vendor == <<"vendor">>
Admin == <<"admin">>

\* An origin table is an object whose key order is observed
\* (Object.entries, Object.keys): entries is the sequence of its
\* properties in insertion order.
Table(entries) == [t |-> "object", entries |-> entries]
Entry(key, value) == [key |-> key, value |-> value]

DEFAULT_CONTEXT_ORIGINS ==
    Table(<<
        Entry(Admin, Arr(<<Str(Url("https", "admin.example.com")),
                           Str(UrlPort("http", "localhost", "4202"))>>)),
        Entry(Vendor, Arr(<<Str(Url("https", "vendor.example.com")),
                            Str(UrlPort("http", "localhost", "4201"))>>)),
        Entry(Customer, Arr(<<Str(Url("https", "customer.example.com")),
                              Str(Url("https", "app.example.com")),
                              Str(UrlPort("http", "localhost", "3000")),
                              Str(UrlPort("http", "localhost", "4200"))>>))
    >>)

\* mutant: the contexts in the key order of the default origin table
VALID_CONTEXTS_TableOrder == <<Admin, Vendor, Customer>>

VALID_CONTEXTS == <<Customer, Vendor, Admin>>

\* mutant: an origin also matches an entry of the same scheme whose host
\* is a domain suffix of the origin's host
Includes_DomainSuffix(items, v) ==
    \E i \in 1..Len(items) :
        \/ items[i] = v
        \/ /\ IsString(items[i]) /\ IsString(v)
           /\ Len(items[i].s) >= 3
           /\ Len(v.s) > Len(items[i].s)
           /\ SubSeq(v.s, 1, 2) = SubSeq(items[i].s, 1, 2)
           /\ SubSeq(v.s, Len(v.s) - Len(items[i].s) + 3, Len(v.s))
                = SubSeq(items[i].s, 3, Len(items[i].s))

\* Array.prototype.includes over a sequence of values
Includes(items, v) == \E i \in 1..Len(items) : items[i] = v

\* Object.entries(o) of a value that is neither null nor undefined
ObjectEntries(o) == IF "entries" \in DOMAIN o THEN o.entries ELSE <<>>

\* mutant: the last entry whose origins include requestOrigin
RECURSIVE FirstContextWithOrigin_Last(_, _)
FirstContextWithOrigin_Last(entries, requestOrigin) ==
    IF entries = <<>> THEN Null
    ELSE LET allowedOrigins == entries[Len(entries)].value
             origins == IF allowedOrigins.t = "array"
                        THEN allowedOrigins.items
                        ELSE <<allowedOrigins>>
         IN  IF Includes(origins, Str(requestOrigin))
             THEN Str(entries[Len(entries)].key)
             ELSE FirstContextWithOrigin_Last(
                      SubSeq(entries, 1, Len(entries) - 1), requestOrigin)

\* the loop of getContextFromOrigin: the first entry, in key order, whose
\* origins include requestOrigin
RECURSIVE FirstContextWithOrigin(_, _)
FirstContextWithOrigin(entries, requestOrigin) ==
    IF entries = <<>> THEN Null
    ELSE LET allowedOrigins == Head(entries).value
             origins == IF allowedOrigins.t = "array"
                        THEN allowedOrigins.items
                        ELSE <<allowedOrigins>>
         IN  IF Includes(origins, Str(requestOrigin))
             THEN Str(Head(entries).key)
             ELSE FirstContextWithOrigin(Tail(entries), requestOrigin)

\* mutant: the URL is parsed outside any try block
getContextFromOrigin_NoCatch(url, contextOrigins) ==
    IF ~Truthy(url) \/ ~IsString(url) THEN Return(Null)
    ELSE IF ~UrlParses(url.s) THEN Throw("TypeError")
    ELSE IF contextOrigins.t \in {"null", "undefined"} THEN Throw("TypeError")
    ELSE Return(FirstContextWithOrigin(ObjectEntries(contextOrigins),
                                       UrlOrigin(url.s)))

getContextFromOrigin(url, contextOrigins) ==
    IF ~Truthy(url) \/ ~IsString(url) THEN Return(Null)
    ELSE IF ~UrlParses(url.s) THEN Return(Null)
    ELSE IF contextOrigins.t \in {"null", "undefined"} THEN Throw("TypeError")
    ELSE Return(FirstContextWithOrigin(ObjectEntries(contextOrigins),
                                       UrlOrigin(url.s)))

isValidContext(context, contextOrigins) ==
    IF ~IsString(context) THEN Return(Bool(FALSE))
    ELSE IF contextOrigins.t \in {"null", "undefined"} THEN Throw("TypeError")
    ELSE Return(Bool(\E i \in 1..Len(ObjectEntries(contextOrigins)) :
                        ObjectEntries(contextOrigins)[i].key = context.s))

\* contextOrigins[context]: the value of the table's property, or undefined
TableGet(contextOrigins, key) ==
    LET entries == ObjectEntries(contextOrigins)
        found == {i \in 1..Len(entries) : entries[i].key = key}
    IN  IF found = {} THEN Undefined
        ELSE entries[CHOOSE i \in found : TRUE].value

isOriginAllowedForContext(origin, context, contextOriginsArg) ==
    LET contextOrigins == IF contextOriginsArg = Undefined
                          THEN DEFAULT_CONTEXT_ORIGINS
                          ELSE contextOriginsArg
        allowedOrigins == TableGet(contextOrigins, context.s)
        origins == IF allowedOrigins.t = "array"
                   THEN allowedOrigins.items
                   ELSE <<allowedOrigins>>
    IN  IF \/ ~Truthy(origin) \/ ~Truthy(context)
           \/ ~IsString(origin) \/ ~IsString(context)
        THEN Return(Bool(FALSE))
        ELSE IF contextOrigins.t = "null" THEN Throw("TypeError")
        ELSE IF ~Truthy(allowedOrigins) THEN Return(Bool(FALSE))
        ELSE IF ~UrlParses(origin.s) THEN Return(Bool(FALSE))
        ELSE Return(Bool(Includes(origins, Str(UrlOrigin(origin.s)))))

\* a destructured option: the default when the property is undefined
Option(options, key, default) ==
    IF Get(options, key) = Undefined THEN default ELSE Get(options, key)

\* mutant: the override is honoured wherever nodeEnv is not production
DevOverride_NotProduction(headers, nodeEnv, contextOrigins) ==
    IF nodeEnv # Str(<<"production">>)
    THEN LET customContext == OptGet(headers, <<"x-auth-context">>)
         IN  IF ~Truthy(customContext) THEN Return(Null)
             ELSE LET valid == isValidContext(customContext, contextOrigins)
                  IN  IF ~Returned(valid) THEN valid
                      ELSE IF valid.value.b THEN Return(customContext)
                      ELSE Return(Null)
    ELSE Return(Null)

\* step 3 of resolveAuthContext
DevOverride(headers, nodeEnv, contextOrigins) ==
    IF nodeEnv = Str(<<"development">>)
    THEN LET customContext == OptGet(headers, <<"x-auth-context">>)
         IN  IF ~Truthy(customContext) THEN Return(Null)
             ELSE LET valid == isValidContext(customContext, contextOrigins)
                  IN  IF ~Returned(valid) THEN valid
                      ELSE IF valid.value.b THEN Return(customContext)
                      ELSE Return(Null)
    ELSE Return(Null)

\* mutant: the referrer spelling is read before referer
RefererStep_ReferrerFirst(headers, nodeEnv, contextOrigins) ==
    LET referer == IF Truthy(OptGet(headers, <<"referrer">>))
                   THEN OptGet(headers, <<"referrer">>)
                   ELSE OptGet(headers, <<"referer">>)
        context == IF Truthy(referer)
                   THEN getContextFromOrigin(referer, contextOrigins)
                   ELSE Return(Null)
    IN  IF ~Returned(context) THEN context
        ELSE IF Truthy(context.value) THEN context
        ELSE DevOverride(headers, nodeEnv, contextOrigins)

\* step 2 of resolveAuthContext and what follows it
RefererStep(headers, nodeEnv, contextOrigins) ==
    LET referer == IF Truthy(OptGet(headers, <<"referer">>))
                   THEN OptGet(headers, <<"referer">>)
                   ELSE OptGet(headers, <<"referrer">>)
        context == IF Truthy(referer)
                   THEN getContextFromOrigin(referer, contextOrigins)
                   ELSE Return(Null)
    IN  IF ~Returned(context) THEN context
        ELSE IF Truthy(context.value) THEN context
        ELSE DevOverride(headers, nodeEnv, contextOrigins)

resolveAuthContext(request, opts) ==
    IF ~Truthy(request) \/ ~TypeofObject(request) THEN Return(Null)
    ELSE LET options == IF opts = Undefined THEN Obj(NoProps) ELSE opts
         IN  IF options = Null THEN Throw("TypeError")
             ELSE
    LET nodeEnv == Option(options, <<"nodeEnv">>, Str(<<"production">>))
        contextOrigins == Option(options, <<"contextOrigins">>,
                                 DEFAULT_CONTEXT_ORIGINS)
        headers == Get(request, <<"headers">>)
        origin == OptGet(headers, <<"origin">>)
        context == IF Truthy(origin)
                   THEN getContextFromOrigin(origin, contextOrigins)
                   ELSE Return(Null)
    IN  IF ~Returned(context) THEN context
        ELSE IF Truthy(context.value) THEN context
        ELSE RefererStep(headers, nodeEnv, contextOrigins)

-----------------------------------------------------------------------------
(* cookieUtils.js *)

Access == <<"access">>
Refresh == <<"refresh">>

\* a parameter's default value: used when the argument is undefined
Default(arg, default) == IF arg = Undefined THEN default ELSE arg

\* the template string `${context}_${tokenType}_token`
CookieNameTemplate(context, tokenType) ==
    context \o <<"_">> \o tokenType \o <<"_token">>

\* mutant: the arguments are not validated
getCookieName_Unchecked(context, tokenTypeArg) ==
    LET tokenType == Default(tokenTypeArg, Str(Access))
    IN  Return(Str(CookieNameTemplate(JsString(context), JsString(tokenType))))

getCookieName(context, tokenTypeArg) ==
    LET tokenType == Default(tokenTypeArg, Str(Access))
    IN  IF ~Truthy(context) \/ ~IsString(context)
        THEN Throw("Context must be a non-empty string")
        ELSE IF ~Truthy(tokenType) \/ ~IsString(tokenType)
        THEN Throw("Token type must be a non-empty string")
        ELSE Return(Str(CookieNameTemplate(context.s, tokenType.s)))

\* mutant: every non-empty string passes for a context
IsValidContextType_Any(context) == TRUE

\* VALID_CONTEXTS.includes(context)
IsValidContextType(context) ==
    \E i \in 1..Len(VALID_CONTEXTS) : Str(VALID_CONTEXTS[i]) = context

\* mutant: the cookie's value is returned as it is, without `|| null`
extractContextToken_Raw(request, context, tokenTypeArg) ==
    LET tokenType == Default(tokenTypeArg, Str(Access))
        cookies == Get(request, <<"cookies">>)
    IN  IF ~Truthy(request) \/ ~TypeofObject(request) THEN Return(Null)
        ELSE IF ~Truthy(context) \/ ~IsString(context) THEN Return(Null)
        ELSE IF ~IsValidContextType(context) THEN Return(Null)
        ELSE IF ~Truthy(cookies) \/ ~TypeofObject(cookies) THEN Return(Null)
        ELSE LET cookieName == getCookieName(context, tokenType)
             IN  IF ~Returned(cookieName) THEN cookieName
                 ELSE Return(Get(cookies, cookieName.value.s))

extractContextToken(request, context, tokenTypeArg) ==
    LET tokenType == Default(tokenTypeArg, Str(Access))
        cookies == Get(request, <<"cookies">>)
    IN  IF ~Truthy(request) \/ ~TypeofObject(request) THEN Return(Null)
        ELSE IF ~Truthy(context) \/ ~IsString(context) THEN Return(Null)
        ELSE IF ~IsValidContextType(context) THEN Return(Null)
        ELSE IF ~Truthy(cookies) \/ ~TypeofObject(cookies) THEN Return(Null)
        ELSE LET cookieName == getCookieName(context, tokenType)
             IN  IF ~Returned(cookieName) THEN cookieName
                 ELSE IF Truthy(Get(cookies, cookieName.value.s))
                 THEN Return(Get(cookies, cookieName.value.s))
                 ELSE Return(Null)

\* contexts.filter(ctx => VALID_CONTEXTS.includes(ctx))
RECURSIVE FilterValid(_)
FilterValid(items) ==
    IF items = <<>> THEN <<>>
    ELSE IF IsValidContextType(Head(items))
    THEN <<Head(items)>> \o FilterValid(Tail(items))
    ELSE FilterValid(Tail(items))

\* the loop of extractTokenFromAllContexts over the filtered contexts
RECURSIVE FirstContextToken(_, _, _)
FirstContextToken(request, tokenType, validContexts) ==
    IF validContexts = <<>>
    THEN Return([token |-> Null, context |-> Null])
    ELSE LET token == extractContextToken(request, Head(validContexts),
                                          tokenType)
         IN  IF ~Returned(token) THEN token
             ELSE IF Truthy(token.value)
             THEN Return([token |-> token.value,
                          context |-> Head(validContexts)])
             ELSE FirstContextToken(request, tokenType, Tail(validContexts))

\* VALID_CONTEXTS as an array of strings
ValidContextsArray == Arr([i \in 1..Len(VALID_CONTEXTS) |-> Str(VALID_CONTEXTS[i])])

\* mutant: the contexts argument is ignored
extractTokenFromAllContexts_EveryContext(request, tokenTypeArg, contextsArg) ==
    LET tokenType == Default(tokenTypeArg, Str(Access))
        cookies == Get(request, <<"cookies">>)
    IN  IF ~Truthy(request) \/ ~TypeofObject(request)
        THEN Return([token |-> Null, context |-> Null])
        ELSE IF ~Truthy(cookies) \/ ~TypeofObject(cookies)
        THEN Return([token |-> Null, context |-> Null])
        ELSE FirstContextToken(request, tokenType, ValidContextsArray.items)

extractTokenFromAllContexts(request, tokenTypeArg, contextsArg) ==
    LET tokenType == Default(tokenTypeArg, Str(Access))
        contexts == Default(contextsArg, ValidContextsArray)
        cookies == Get(request, <<"cookies">>)
        validContexts == IF contexts.t = "array"
                         THEN FilterValid(contexts.items)
                         ELSE ValidContextsArray.items
    IN  IF ~Truthy(request) \/ ~TypeofObject(request)
        THEN Return([token |-> Null, context |-> Null])
        ELSE IF ~Truthy(cookies) \/ ~TypeofObject(cookies)
        THEN Return([token |-> Null, context |-> Null])
        ELSE FirstContextToken(request, tokenType, validContexts)

\* the default of the tokenTypes parameter, ['access', 'refresh']
DefaultTokenTypes == Arr(<<Str(Access), Str(Refresh)>>)

\* the loop of extractContextTokens: tokens is the object built so far
RECURSIVE ContextTokensLoop(_, _, _, _)
ContextTokensLoop(request, context, items, tokens) ==
    IF items = <<>> THEN Return(Obj(tokens))
    ELSE IF ~IsString(Head(items))
    THEN ContextTokensLoop(request, context, Tail(items), tokens)
    ELSE LET token == extractContextToken(request, context, Head(items))
         IN  IF ~Returned(token) THEN token
             ELSE ContextTokensLoop(
                      request, context, Tail(items),
                      (Head(items).s :> token.value) @@ tokens)

extractContextTokens(request, context, tokenTypesArg) ==
    LET tokenTypes == Default(tokenTypesArg, DefaultTokenTypes)
    IN  IF ~Truthy(request) \/ ~TypeofObject(request)
        THEN Return(Obj(NoProps))
        ELSE IF ~Truthy(context) \/ ~IsString(context)
        THEN Return(Obj(NoProps))
        ELSE IF tokenTypes.t # "array" THEN Return(Obj(NoProps))
        ELSE ContextTokensLoop(request, context, tokenTypes.items, NoProps)

-----------------------------------------------------------------------------
(* tokenExtractor.js *)

NoToken == [token |-> Null, source |-> Null, context |-> Null]

BearerPrefix == <<"Bearer", " ">>

\* mutant: the prefix is compared without regard to case
BearerToken_AnyCase(authHeader) ==
    IF /\ Truthy(authHeader)
       /\ IsString(authHeader)
       /\ Len(authHeader.s) >= 2
       /\ authHeader.s[1] \in {"Bearer", "bearer", "BEARER"}
       /\ authHeader.s[2] = " "
    THEN Trim(Substring(authHeader.s, CharLen(BearerPrefix)))
    ELSE <<>>

\* the Bearer step: the trimmed remainder of a usable header, else <<>>
BearerToken(authHeader) ==
    IF /\ Truthy(authHeader)
       /\ IsString(authHeader)
       /\ StartsWith(authHeader.s, BearerPrefix)
    THEN Trim(Substring(authHeader.s, CharLen(BearerPrefix)))
    ELSE <<>>

\* mutant: only the names built from the token type
legacyFormats_TypeOnly(tokenType) ==
    << JsString(tokenType) \o <<"Token">>,
       JsString(tokenType),
       JsString(tokenType) \o <<"_token">> >>

legacyFormats(tokenType) ==
    << JsString(tokenType) \o <<"Token">>,
       JsString(tokenType),
       JsString(tokenType) \o <<"_token">>,
       <<"access", "Token">>,
       <<"access", "_token">> >>

\* mutant: a legacy cookie reported with a source of its own
RECURSIVE FirstLegacyToken_LegacySource(_, _)
FirstLegacyToken_LegacySource(cookies, formats) ==
    IF formats = <<>> THEN NoToken
    ELSE IF Truthy(OptGet(cookies, Head(formats)))
    THEN [token |-> OptGet(cookies, Head(formats)),
          source |-> Str(<<"legacy">>),
          context |-> Null]
    ELSE FirstLegacyToken_LegacySource(cookies, Tail(formats))

\* step 4 of extractToken: the first truthy legacy cookie
RECURSIVE FirstLegacyToken(_, _)
FirstLegacyToken(cookies, formats) ==
    IF formats = <<>> THEN NoToken
    ELSE IF Truthy(OptGet(cookies, Head(formats)))
    THEN [token |-> OptGet(cookies, Head(formats)),
          source |-> Str(<<"cookie">>),
          context |-> Null]
    ELSE FirstLegacyToken(cookies, Tail(formats))

\* steps 3 and 4 of extractToken
FallbackSteps(request, tokenType) ==
    LET found == extractTokenFromAllContexts(request, tokenType, Undefined)
    IN  IF ~Returned(found) THEN found
        ELSE IF Truthy(found.value.token)
        THEN Return([token |-> found.value.token,
                     source |-> Str(<<"cookie">>),
                     context |-> found.value.context])
        ELSE Return(FirstLegacyToken(Get(request, <<"cookies">>),
                                     legacyFormats(tokenType)))

\* mutant: the resolved context is not consulted
ContextStep_Skipped(request, preferContext, tokenType, nodeEnv, contextOrigins) ==
    FallbackSteps(request, tokenType)

\* mutant: the cookie named after the resolved context is read without
\* extractContextToken's validation of the context
ContextStep_Unvalidated(request, preferContext, tokenType, nodeEnv, contextOrigins) ==
    LET context == IF Truthy(preferContext)
                   THEN resolveAuthContext(request,
                            Obj((<<"nodeEnv">> :> nodeEnv)
                                @@ (<<"contextOrigins">> :> contextOrigins)))
                   ELSE Return(Null)
        cookieName == getCookieName(context.value, tokenType)
        token == IF Returned(context) /\ Truthy(context.value)
                 THEN IF Returned(cookieName)
                      THEN Return(OptGet(Get(request, <<"cookies">>),
                                         cookieName.value.s))
                      ELSE cookieName
                 ELSE Return(Null)
    IN  IF ~Returned(context) THEN context
        ELSE IF ~Returned(token) THEN token
        ELSE IF Truthy(token.value)
        THEN Return([token |-> token.value,
                     source |-> Str(<<"cookie">>),
                     context |-> context.value])
        ELSE FallbackSteps(request, tokenType)

\* mutant: the context is resolved whatever preferContext is
ContextStep_AlwaysResolve(request, preferContext, tokenType, nodeEnv, contextOrigins) ==
    LET context == resolveAuthContext(request,
                       Obj((<<"nodeEnv">> :> nodeEnv)
                           @@ (<<"contextOrigins">> :> contextOrigins)))
        token == IF Returned(context) /\ Truthy(context.value)
                 THEN extractContextToken(request, context.value, tokenType)
                 ELSE Return(Null)
    IN  IF ~Returned(context) THEN context
        ELSE IF ~Returned(token) THEN token
        ELSE IF Truthy(token.value)
        THEN Return([token |-> token.value,
                     source |-> Str(<<"cookie">>),
                     context |-> context.value])
        ELSE FallbackSteps(request, tokenType)

\* step 2 of extractToken and what follows it
ContextStep(request, preferContext, tokenType, nodeEnv, contextOrigins) ==
    LET context == IF Truthy(preferContext)
                   THEN resolveAuthContext(request,
                            Obj((<<"nodeEnv">> :> nodeEnv)
                                @@ (<<"contextOrigins">> :> contextOrigins)))
                   ELSE Return(Null)
        token == IF Returned(context) /\ Truthy(context.value)
                 THEN extractContextToken(request, context.value, tokenType)
                 ELSE Return(Null)
    IN  IF ~Returned(context) THEN context
        ELSE IF ~Returned(token) THEN token
        ELSE IF Truthy(token.value)
        THEN Return([token |-> token.value,
                     source |-> Str(<<"cookie">>),
                     context |-> context.value])
        ELSE FallbackSteps(request, tokenType)

\* mutant: the cookie steps run first, the Bearer header only when they
\* find nothing
extractToken_CookiesFirst(request, opts) ==
    IF ~Truthy(request) \/ ~TypeofObject(request) THEN Return(NoToken)
    ELSE IF Default(opts, Obj(NoProps)) = Null THEN Throw("TypeError")
    ELSE
    LET options == Default(opts, Obj(NoProps))
        preferContext == Option(options, <<"preferContext">>, Bool(TRUE))
        tokenType == Option(options, <<"tokenType">>, Str(Access))
        nodeEnv == Option(options, <<"nodeEnv">>, Str(<<"production">>))
        contextOrigins == Get(options, <<"contextOrigins">>)
        authHeader == OptGet(Get(request, <<"headers">>), <<"authorization">>)
        fromCookies == ContextStep(request, preferContext, tokenType, nodeEnv,
                                   contextOrigins)
    IN  IF /\ Returned(fromCookies)
           /\ fromCookies.value.token = Null
           /\ BearerToken(authHeader) # <<>>
        THEN Return([token |-> Str(BearerToken(authHeader)),
                     source |-> Str(<<"header">>),
                     context |-> Null])
        ELSE fromCookies

\* mutant: the options are destructured before the request is validated
extractToken_OptionsFirst(request, opts) ==
    IF Default(opts, Obj(NoProps)) = Null THEN Throw("TypeError")
    ELSE IF ~Truthy(request) \/ ~TypeofObject(request) THEN Return(NoToken)
    ELSE
    LET options == Default(opts, Obj(NoProps))
        preferContext == Option(options, <<"preferContext">>, Bool(TRUE))
        tokenType == Option(options, <<"tokenType">>, Str(Access))
        nodeEnv == Option(options, <<"nodeEnv">>, Str(<<"production">>))
        contextOrigins == Get(options, <<"contextOrigins">>)
        authHeader == OptGet(Get(request, <<"headers">>), <<"authorization">>)
    IN  IF BearerToken(authHeader) # <<>>
        THEN Return([token |-> Str(BearerToken(authHeader)),
                     source |-> Str(<<"header">>),
                     context |-> Null])
        ELSE ContextStep(request, preferContext, tokenType, nodeEnv,
                         contextOrigins)

extractToken(request, opts) ==
    IF ~Truthy(request) \/ ~TypeofObject(request) THEN Return(NoToken)
    ELSE IF Default(opts, Obj(NoProps)) = Null THEN Throw("TypeError")
    ELSE
    LET options == Default(opts, Obj(NoProps))
        preferContext == Option(options, <<"preferContext">>, Bool(TRUE))
        tokenType == Option(options, <<"tokenType">>, Str(Access))
        nodeEnv == Option(options, <<"nodeEnv">>, Str(<<"production">>))
        contextOrigins == Get(options, <<"contextOrigins">>)
        authHeader == OptGet(Get(request, <<"headers">>), <<"authorization">>)
    IN  IF BearerToken(authHeader) # <<>>
        THEN Return([token |-> Str(BearerToken(authHeader)),
                     source |-> Str(<<"header">>),
                     context |-> Null])
        ELSE ContextStep(request, preferContext, tokenType, nodeEnv,
                         contextOrigins)

\* mutant: when the expected context's cookie is missing, the cookies of
\* all contexts and the legacy cookies are tried before the Bearer header
extractTokenWithContext_AnyCookie(request, expectedContext, opts) ==
    IF ~Truthy(expectedContext) \/ ~IsString(expectedContext)
    THEN Return(NoToken)
    ELSE IF Default(opts, Obj(NoProps)) = Null THEN Throw("TypeError")
    ELSE
    LET options == Default(opts, Obj(NoProps))
        tokenType == Option(options, <<"tokenType">>, Str(Access))
        token == extractContextToken(request, expectedContext, tokenType)
        other == FallbackSteps(request, tokenType)
    IN  IF ~Returned(token) THEN token
        ELSE IF Truthy(token.value)
        THEN Return([token |-> token.value,
                     source |-> Str(<<"cookie">>),
                     context |-> expectedContext])
        ELSE IF request.t \in {"null", "undefined"} THEN Throw("TypeError")
        ELSE IF Returned(other) /\ other.value.token # Null THEN other
        ELSE LET authHeader == OptGet(Get(request, <<"headers">>),
                                      <<"authorization">>)
             IN  IF BearerToken(authHeader) # <<>>
                 THEN Return([token |-> Str(BearerToken(authHeader)),
                              source |-> Str(<<"header">>),
                              context |-> Null])
                 ELSE Return(NoToken)

\* mutant: the Bearer header is tried before the expected context's cookie
extractTokenWithContext_BearerFirst(request, expectedContext, opts) ==
    IF ~Truthy(expectedContext) \/ ~IsString(expectedContext)
    THEN Return(NoToken)
    ELSE IF Default(opts, Obj(NoProps)) = Null THEN Throw("TypeError")
    ELSE
    LET options == Default(opts, Obj(NoProps))
        tokenType == Option(options, <<"tokenType">>, Str(Access))
        token == extractContextToken(request, expectedContext, tokenType)
        authHeader == OptGet(Get(request, <<"headers">>), <<"authorization">>)
    IN  IF request.t \in {"null", "undefined"} THEN Throw("TypeError")
        ELSE IF BearerToken(authHeader) # <<>>
        THEN Return([token |-> Str(BearerToken(authHeader)),
                     source |-> Str(<<"header">>),
                     context |-> Null])
        ELSE IF ~Returned(token) THEN token
        ELSE IF Truthy(token.value)
        THEN Return([token |-> token.value,
                     source |-> Str(<<"cookie">>),
                     context |-> expectedContext])
        ELSE Return(NoToken)

extractTokenWithContext(request, expectedContext, opts) ==
    IF ~Truthy(expectedContext) \/ ~IsString(expectedContext)
    THEN Return(NoToken)
    ELSE IF Default(opts, Obj(NoProps)) = Null THEN Throw("TypeError")
    ELSE
    LET options == Default(opts, Obj(NoProps))
        tokenType == Option(options, <<"tokenType">>, Str(Access))
        token == extractContextToken(request, expectedContext, tokenType)
    IN  IF ~Returned(token) THEN token
        ELSE IF Truthy(token.value)
        THEN Return([token |-> token.value,
                     source |-> Str(<<"cookie">>),
                     context |-> expectedContext])
        ELSE IF request.t \in {"null", "undefined"} THEN Throw("TypeError")
        ELSE LET authHeader == OptGet(Get(request, <<"headers">>),
                                      <<"authorization">>)
             IN  IF BearerToken(authHeader) # <<>>
                 THEN Return([token |-> Str(BearerToken(authHeader)),
                              source |-> Str(<<"header">>),
                              context |-> Null])
                 ELSE Return(NoToken)

-----------------------------------------------------------------------------
(* Bounded inputs *)

\* the largest number of headers and cookies a generated request carries
MaxFields == 3

Partner == <<"partner">>

AdminUrl == Url("https", "admin.example.com")
VendorPage == Url("https", "vendor.example.com") \o <<"/", "orders">>

\* a caller's origin table: a custom context with a single origin string
\* (the default table's admin origin), and the vendor origin given to
\* customer
CustomOrigins ==
    Table(<< Entry(Partner, Str(AdminUrl)),
             Entry(Customer, Arr(<<Str(Url("https", "vendor.example.com"))>>)) >>)

\* every object whose properties are drawn from choices: a function from
\* property names to the set of values the property may take
RECURSIVE Assignments(_, _)
Assignments(keys, choices) ==
    IF keys = {} THEN {NoProps}
    ELSE LET k == CHOOSE x \in keys : TRUE
         IN  {(k :> v) @@ f : v \in choices[k],
                              f \in Assignments(keys \ {k}, choices)}

\* the objects with at most n of the properties of choices
UpTo(n, choices) ==
    UNION {Assignments(keys, choices) :
             keys \in {ks \in SUBSET DOMAIN choices : Cardinality(ks) <= n}}

\* a request built from fields, a function from <<"header", name>> and
\* <<"cookie", name>> to values
Part(fields, kind) ==
    Obj([name \in {k[2] : k \in {x \in DOMAIN fields : x[1] = kind}}
           |-> fields[<<kind, name>>]])

Request(fields) ==
    Obj((<<"headers">> :> Part(fields, "header"))
        @@ (<<"cookies">> :> Part(fields, "cookie")))

\* requests that are not objects, or carry neither headers nor cookies
OddRequests == {Null, Undefined, Num(1), Obj(NoProps)}

TokenValue(name) == Str(<<"value-of-">> \o name)

\* a cookie that is empty or holds a token, and one that holds a token
CookieField(name) == <<"cookie", name>> :> {EmptyStr, TokenValue(name)}
SetCookieField(name) == <<"cookie", name>> :> {TokenValue(name)}

ExtractFields ==
    (<<"header", <<"authorization">>>> :>
        { Str(<<"Bearer", " ", " ", "h1", " ">>),
          Str(<<"Bearer", " ", " ">>),
          Str(<<"Basic", " ", "h2">>) })
    @@ (<<"header", <<"origin">>>> :>
        {Str(AdminUrl), Str(<<"not a url">>)})
    @@ (<<"header", <<"referer">>>> :> {Str(VendorPage)})
    @@ (<<"header", <<"x-auth-context">>>> :> {Str(Customer), Str(Partner)})
    @@ CookieField(CookieNameTemplate(Customer, Access))
    @@ CookieField(CookieNameTemplate(Vendor, Access))
    @@ CookieField(CookieNameTemplate(Admin, Access))
    @@ CookieField(CookieNameTemplate(Partner, Access))
    @@ CookieField(CookieNameTemplate(Vendor, Refresh))
    @@ CookieField(<<"access", "Token">>)
    @@ SetCookieField(<<"access">>)
    @@ SetCookieField(<<"access", "_token">>)
    @@ SetCookieField(<<"refresh", "Token">>)
    @@ SetCookieField(<<"refresh", "_token">>)

ExtractRequests ==
    OddRequests \cup {Request(f) : f \in UpTo(MaxFields, ExtractFields)}

ExtractTokenOptions ==
    {Obj(o) : o \in Assignments(
        {<<"preferContext">>, <<"tokenType">>, <<"nodeEnv">>,
         <<"contextOrigins">>},
        (<<"preferContext">> :> {Undefined, Bool(FALSE)})
        @@ (<<"tokenType">> :> {Undefined, Str(Refresh)})
        @@ (<<"nodeEnv">> :> {Undefined, Str(<<"development">>)})
        @@ (<<"contextOrigins">> :> {Undefined, CustomOrigins}))}

ExpectedContexts ==
    {Str(Admin), Str(Vendor), Str(Partner), EmptyStr}

WithContextOptions ==
    {Undefined, Obj(<<"tokenType">> :> Str(Refresh))}

-----------------------------------------------------------------------------
(* The token extractor: a request arrives, the host calls an operation on  *)
(* it and consumes the outcome.                                            *)

Idle == [op |-> "none"]
NoOutcome == [kind |-> "none"]

TypeOK ==
    /\ call.op \in {"none", "extractToken", "extractTokenWithContext",
                    "resolveAuthContext", "getCookieName",
                    "extractContextToken", "extractTokenFromAllContexts",
                    "extractContextTokens", "isOriginAllowedForContext"}
    /\ ret.kind \in {"none", "return", "throw"}

InitExtract ==
    /\ req \in ExtractRequests
    /\ call = Idle
    /\ ret = NoOutcome

ExtractTokenCall ==
    /\ call = Idle
    /\ \E options \in ExtractTokenOptions :
         /\ call' = [op |-> "extractToken", options |-> options]
         /\ ret' = extractToken(req, options)
    /\ UNCHANGED req

ExtractTokenWithContextCall ==
    /\ call = Idle
    /\ \E expectedContext \in ExpectedContexts, options \in WithContextOptions :
         /\ call' = [op |-> "extractTokenWithContext",
                     expectedContext |-> expectedContext,
                     options |-> options]
         /\ ret' = extractTokenWithContext(req, expectedContext, options)
    /\ UNCHANGED req

\* the host takes the outcome; the request can be used for another call
Complete ==
    /\ call # Idle
    /\ call' = Idle
    /\ ret' = NoOutcome
    /\ UNCHANGED req

NextExtract ==
    \/ ExtractTokenCall
    \/ ExtractTokenWithContextCall
    \/ Complete

Spec == InitExtract /\ [][NextExtract]_vars

-----------------------------------------------------------------------------
(* The context resolver *)

CustomerPage == Url("https", "customer.example.com") \o <<"/", "cart">>

\* the default origins as the package's README documents them
DocumentedOrigins ==
    << Entry(Admin, Url("https", "admin.bizpickr.cloud")),
       Entry(Vendor, Url("https", "vendor.bizpickr.cloud")),
       Entry(Customer, Url("https", "customer.bizpickr.cloud")),
       Entry(Customer, Url("https", "bizpickr.cloud")) >>

DocumentedOriginValues ==
    {Str(DocumentedOrigins[i].value) : i \in 1..Len(DocumentedOrigins)}

ResolveFields ==
    (<<"header", <<"origin">>>> :>
        (DocumentedOriginValues \cup
         { Str(AdminUrl),
           Str(UrlPort("http", "localhost", "4201")),
           Str(Url("https", "unknown.example.net")),
           Str(<<"not a url">>),
           Str(<<"admin.example.com">>),
           Num(5) }))
    @@ (<<"header", <<"referer">>>> :>
        {Str(VendorPage), Str(AdminUrl), Str(<<"not a url">>), EmptyStr})
    @@ (<<"header", <<"referrer">>>> :> {Str(CustomerPage), Str(AdminUrl)})
    @@ (<<"header", <<"x-auth-context">>>> :>
        {Str(Customer), Str(Partner), Str(<<"bogus">>), Num(1)})

ResolveRequests ==
    OddRequests \cup
    {Request(f) : f \in UpTo(Cardinality(DOMAIN ResolveFields), ResolveFields)}

ResolveOptions ==
    {Undefined} \cup
    {Obj(o) : o \in Assignments(
        {<<"nodeEnv">>, <<"contextOrigins">>},
        (<<"nodeEnv">> :> {Undefined, Str(<<"development">>),
                           Str(<<"test">>), Str(<<"DEVELOPMENT">>)})
        @@ (<<"contextOrigins">> :> {Undefined, CustomOrigins}))}

InitResolve ==
    /\ req \in ResolveRequests
    /\ call = Idle
    /\ ret = NoOutcome

ResolveAuthContextCall ==
    /\ call = Idle
    /\ \E options \in ResolveOptions :
         /\ call' = [op |-> "resolveAuthContext", options |-> options]
         /\ ret' = resolveAuthContext(req, options)
    /\ UNCHANGED req

AllowedOrigins ==
    DocumentedOriginValues
    \cup {Str(AdminUrl), Str(VendorPage), Str(<<"not a url">>), EmptyStr,
          Num(5)}

AllowedContexts == {Str(Customer), Str(Vendor), Str(Admin), Str(Partner), Null}

IsOriginAllowedForContextCall ==
    /\ call = Idle
    /\ \E origin \in AllowedOrigins, context \in AllowedContexts,
          contextOrigins \in {Undefined, CustomOrigins} :
         /\ call' = [op |-> "isOriginAllowedForContext", origin |-> origin,
                     context |-> context, contextOrigins |-> contextOrigins]
         /\ ret' = isOriginAllowedForContext(origin, context, contextOrigins)
    /\ UNCHANGED req

NextResolve ==
    \/ ResolveAuthContextCall
    \/ IsOriginAllowedForContextCall
    \/ Complete

SpecResolve == InitResolve /\ [][NextResolve]_vars

-----------------------------------------------------------------------------
(* The cookie accessor *)

\* a cookie that is falsy in one of three ways, or holds a token
FalsyCookieField(name) ==
    <<"cookie", name>> :> {EmptyStr, Num(0), TokenValue(name)}

CookieFields ==
    FalsyCookieField(CookieNameTemplate(Customer, Access))
    @@ CookieField(CookieNameTemplate(Vendor, Access))
    @@ CookieField(CookieNameTemplate(Admin, Access))
    @@ CookieField(CookieNameTemplate(Partner, Access))
    @@ CookieField(CookieNameTemplate(Vendor, Refresh))
    @@ CookieField(CookieNameTemplate(Admin, <<"password_reset">>))

CookieRequests ==
    OddRequests \cup {Request(f) : f \in UpTo(MaxFields, CookieFields)}

NameContexts ==
    {Str(Customer), Str(Vendor), Str(Admin), Str(Partner), EmptyStr, Null,
     Undefined, Num(0), Num(7)}

NameTokenTypes ==
    {Undefined, Str(Access), Str(Refresh), Str(<<"password_reset">>),
     EmptyStr, Null, Num(7)}

InitCookie ==
    /\ req \in CookieRequests
    /\ call = Idle
    /\ ret = NoOutcome

GetCookieNameCall ==
    /\ call = Idle
    /\ \E context \in NameContexts, tokenType \in NameTokenTypes :
         /\ call' = [op |-> "getCookieName", context |-> context,
                     tokenType |-> tokenType]
         /\ ret' = getCookieName(context, tokenType)
    /\ UNCHANGED req

ExtractContextTokenCall ==
    /\ call = Idle
    /\ \E context \in NameContexts, tokenType \in NameTokenTypes :
         /\ call' = [op |-> "extractContextToken", context |-> context,
                     tokenType |-> tokenType]
         /\ ret' = extractContextToken(req, context, tokenType)
    /\ UNCHANGED req

\* the contexts argument: omitted, not an array, and arrays in and out of
\* the default order, with elements outside the valid contexts
ContextLists ==
    {Undefined, Str(Admin), Arr(<<>>),
     Arr(<<Str(Vendor), Str(Admin)>>),
     Arr(<<Str(Admin), Str(Customer)>>),
     Arr(<<Str(Partner), Num(7), Str(Customer), Str(Vendor)>>)}

AllContextsTokenTypes == {Undefined, Str(Access), Str(Refresh)}

ExtractTokenFromAllContextsCall ==
    /\ call = Idle
    /\ \E tokenType \in AllContextsTokenTypes, contexts \in ContextLists :
         /\ call' = [op |-> "extractTokenFromAllContexts",
                     tokenType |-> tokenType, contexts |-> contexts]
         /\ ret' = extractTokenFromAllContexts(req, tokenType, contexts)
    /\ UNCHANGED req

TokensContexts ==
    {Str(Customer), Str(Vendor), Str(Admin), Str(Partner), EmptyStr, Null}

\* the tokenTypes argument: omitted, not an array, and arrays with entries
\* that are not strings or are empty
TokenTypeLists ==
    {Undefined, Null, Str(Access), Arr(<<>>),
     Arr(<<Str(Access)>>),
     Arr(<<Str(Refresh), Num(7), Str(Access)>>),
     Arr(<<Null, Str(<<"password_reset">>)>>),
     Arr(<<Str(Access), EmptyStr>>)}

\* mutant: the cookies are taken from the request as they are read
ExtractContextTokensCall_Consuming ==
    /\ call = Idle
    /\ \E context \in TokensContexts, tokenTypes \in TokenTypeLists :
         /\ call' = [op |-> "extractContextTokens", context |-> context,
                     tokenTypes |-> tokenTypes]
         /\ ret' = extractContextTokens(req, context, tokenTypes)
    /\ req' = IF req.t = "object"
              THEN Obj([k \in DOMAIN req.props \ {<<"cookies">>}
                          |-> req.props[k]])
              ELSE req

ExtractContextTokensCall ==
    /\ call = Idle
    /\ \E context \in TokensContexts, tokenTypes \in TokenTypeLists :
         /\ call' = [op |-> "extractContextTokens", context |-> context,
                     tokenTypes |-> tokenTypes]
         /\ ret' = extractContextTokens(req, context, tokenTypes)
    /\ UNCHANGED req

NextCookie ==
    \/ GetCookieNameCall
    \/ ExtractContextTokenCall
    \/ ExtractTokenFromAllContextsCall
    \/ ExtractContextTokensCall
    \/ Complete

SpecCookie == InitCookie /\ [][NextCookie]_vars

-----------------------------------------------------------------------------
(* Wrong-shaped arguments *)

\* requests that are not objects
NonObjectRequests ==
    {Null, Undefined, Num(0), Num(1), Bool(TRUE), Str(<<"request">>)}

\* request objects whose headers and cookies are not objects
WrongShapedRequests ==
    { Obj((<<"headers">> :> Null) @@ (<<"cookies">> :> Null)),
      Obj((<<"headers">> :> Obj(NoProps))
          @@ (<<"cookies">> :> Str(<<"cookies">>))) }

ShapeFields ==
    (<<"header", <<"authorization">>>> :>
        {Str(<<"Bearer", " ", "h1">>), Num(7)})
    @@ (<<"header", <<"origin">>>> :> {Str(AdminUrl)})
    @@ CookieField(CookieNameTemplate(Customer, Access))
    @@ SetCookieField(CookieNameTemplate(Admin, Access))
    @@ SetCookieField(<<"accessToken">>)

ShapeRequests ==
    NonObjectRequests \cup WrongShapedRequests \cup {Obj(NoProps)}
    \cup {Request(f) : f \in UpTo(MaxFields, ShapeFields)}

\* the options argument: omitted, not an object, and objects whose
\* properties are not of the documented types
ShapeOptions ==
    {Undefined, Null, Num(3), Str(<<"options">>), Obj(NoProps),
     Obj(<<"tokenType">> :> EmptyStr),
     Obj(<<"tokenType">> :> Null),
     Obj(<<"tokenType">> :> Num(7)),
     Obj(<<"preferContext">> :> Num(0)),
     Obj(<<"nodeEnv">> :> Num(1)),
     Obj((<<"preferContext">> :> Bool(FALSE)) @@ (<<"tokenType">> :> Null))}

ShapeExpectedContexts ==
    {Str(Customer), Str(Admin), Str(Partner), EmptyStr, Null, Num(7)}

ShapeWithContextOptions ==
    {Undefined, Null, Num(3), Obj(NoProps),
     Obj(<<"tokenType">> :> EmptyStr),
     Obj(<<"tokenType">> :> Num(7))}

ShapeContextLists ==
    {Undefined, Null, Num(7), Arr(<<Null, Str(Admin)>>)}

InitShape ==
    /\ req \in ShapeRequests
    /\ call = Idle
    /\ ret = NoOutcome

ExtractTokenShapeCall ==
    /\ call = Idle
    /\ \E options \in ShapeOptions :
         /\ call' = [op |-> "extractToken", options |-> options]
         /\ ret' = extractToken(req, options)
    /\ UNCHANGED req

ExtractTokenWithContextShapeCall ==
    /\ call = Idle
    /\ \E expectedContext \in ShapeExpectedContexts,
          options \in ShapeWithContextOptions :
         /\ call' = [op |-> "extractTokenWithContext",
                     expectedContext |-> expectedContext,
                     options |-> options]
         /\ ret' = extractTokenWithContext(req, expectedContext, options)
    /\ UNCHANGED req

ExtractTokenFromAllContextsShapeCall ==
    /\ call = Idle
    /\ \E tokenType \in NameTokenTypes, contexts \in ShapeContextLists :
         /\ call' = [op |-> "extractTokenFromAllContexts",
                     tokenType |-> tokenType, contexts |-> contexts]
         /\ ret' = extractTokenFromAllContexts(req, tokenType, contexts)
    /\ UNCHANGED req

NextShape ==
    \/ ExtractTokenShapeCall
    \/ ExtractTokenWithContextShapeCall
    \/ ExtractContextTokenCall
    \/ ExtractTokenFromAllContextsShapeCall
    \/ Complete

SpecShape == InitShape /\ [][NextShape]_vars

-----------------------------------------------------------------------------
(* Authorization headers *)

\* authorization headers: usable ones with white space around and inside
\* the token, ones with nothing after the prefix, other prefixes and
\* spellings, and values that are not strings
AuthorizationValues ==
    { Str(<<"Bearer", " ", "h1">>),
      Str(<<"Bearer", " ", " ", "\t", "h1", " ", "h2", "\t", " ">>),
      Str(<<"Bearer", " ">>),
      Str(<<"Bearer", " ", " ", "\t">>),
      Str(<<"Bearer">>),
      Str(<<"Bearer", "\t", "h1">>),
      Str(<<" ", "Bearer", " ", "h1">>),
      Str(<<"bearer", " ", "h1">>),
      Str(<<"BEARER", " ", "h1">>),
      Str(<<"Basic", " ", "h1">>),
      Str(<<"h1">>),
      EmptyStr, Null, Num(7), Bool(TRUE),
      Arr(<<Str(<<"Bearer", " ", "h1">>)>>) }

BearerFields ==
    (<<"header", <<"authorization">>>> :> AuthorizationValues)
    @@ (<<"header", <<"origin">>>> :> {Str(AdminUrl)})
    @@ CookieField(CookieNameTemplate(Customer, Access))
    @@ SetCookieField(CookieNameTemplate(Admin, Access))
    @@ SetCookieField(<<"accessToken">>)

BearerRequests == {Request(f) : f \in UpTo(MaxFields, BearerFields)}

BearerOptions == {Undefined, Obj(<<"preferContext">> :> Bool(FALSE))}

BearerExpectedContexts == {Str(Customer), Str(Admin), Str(Partner)}

InitBearer ==
    /\ req \in BearerRequests
    /\ call = Idle
    /\ ret = NoOutcome

ExtractTokenBearerCall ==
    /\ call = Idle
    /\ \E options \in BearerOptions :
         /\ call' = [op |-> "extractToken", options |-> options]
         /\ ret' = extractToken(req, options)
    /\ UNCHANGED req

ExtractTokenWithContextBearerCall ==
    /\ call = Idle
    /\ \E expectedContext \in BearerExpectedContexts :
         /\ call' = [op |-> "extractTokenWithContext",
                     expectedContext |-> expectedContext,
                     options |-> Undefined]
         /\ ret' = extractTokenWithContext(req, expectedContext, Undefined)
    /\ UNCHANGED req

NextBearer ==
    \/ ExtractTokenBearerCall
    \/ ExtractTokenWithContextBearerCall
    \/ Complete

SpecBearer == InitBearer /\ [][NextBearer]_vars

-----------------------------------------------------------------------------
(* Origin lookup *)

SharedUrl == Url("https", "portal.example.com")
ShopUrl == <<"https", "://", "shop", ".", "partner.example.org">>

\* a caller's table that lists one origin under three contexts, vendor
\* being inserted first
DuplicateOrigins ==
    Table(<< Entry(Vendor, Arr(<<Str(UrlPort("http", "localhost", "4201")),
                                 Str(SharedUrl)>>)),
             Entry(Customer, Str(SharedUrl)),
             Entry(Admin, Arr(<<Str(SharedUrl), Str(AdminUrl)>>)) >>)

\* the same properties inserted in another order
ReorderedOrigins ==
    Table(<< Entry(Admin, Arr(<<Str(SharedUrl), Str(AdminUrl)>>)),
             Entry(Customer, Str(SharedUrl)),
             Entry(Vendor, Arr(<<Str(UrlPort("http", "localhost", "4201")),
                                 Str(SharedUrl)>>)) >>)

\* a caller's table with an origin on a sub-domain
ShopOrigins ==
    Table(<< Entry(Partner, Str(ShopUrl)),
             Entry(Admin, Arr(<<Str(AdminUrl)>>)) >>)

LookupTables == {Undefined, DuplicateOrigins, ReorderedOrigins, ShopOrigins}

\* URLs that equal a table's origin, differ from one by path, query or
\* default port, or are a prefix, an extension, a sub-domain or a domain
\* suffix of one
LookupUrls ==
    { Str(SharedUrl),
      Str(SharedUrl \o <<"/", "login">>),
      Str(AdminUrl \o <<"/", "users", "?", "page=2">>),
      Str(UrlPort("https", "admin.example.com", "443") \o <<"/">>),
      Str(UrlPort("https", "admin.example.com", "8080")),
      Str(Url("http", "admin.example.com")),
      Str(Url("http", "localhost")),
      Str(UrlPort("http", "localhost", "4202")),
      Str(<<"https", "://", "evil", ".", "admin.example.com">>),
      Str(<<"https", "://", "admin.example.com", ".", "evil.example.net">>),
      Str(ShopUrl),
      Str(<<"https", "://", "partner.example.org">>),
      Str(<<"https", "://", "x", ".", "shop", ".", "partner.example.org">>) }

LookupFields ==
    (<<"header", <<"origin">>>> :> LookupUrls)
    @@ (<<"header", <<"referer">>>> :>
          { Str(SharedUrl \o <<"/", "login">>),
            Str(<<"https", "://", "evil", ".", "admin.example.com">>),
            Str(ShopUrl \o <<"/", "cart">>) })

LookupRequests == {Request(f) : f \in UpTo(MaxFields, LookupFields)}

LookupContexts == {Str(Customer), Str(Vendor), Str(Admin), Str(Partner)}

InitLookup ==
    /\ req \in LookupRequests
    /\ call = Idle
    /\ ret = NoOutcome

ResolveAuthContextLookupCall ==
    /\ call = Idle
    /\ \E contextOrigins \in LookupTables :
         /\ call' = [op |-> "resolveAuthContext",
                     options |-> Obj(<<"contextOrigins">> :> contextOrigins)]
         /\ ret' = resolveAuthContext(
                      req, Obj(<<"contextOrigins">> :> contextOrigins))
    /\ UNCHANGED req

IsOriginAllowedForContextLookupCall ==
    /\ call = Idle
    /\ \E origin \in LookupUrls, context \in LookupContexts,
          contextOrigins \in LookupTables :
         /\ call' = [op |-> "isOriginAllowedForContext", origin |-> origin,
                     context |-> context, contextOrigins |-> contextOrigins]
         /\ ret' = isOriginAllowedForContext(origin, context, contextOrigins)
    /\ UNCHANGED req

NextLookup ==
    \/ ResolveAuthContextLookupCall
    \/ IsOriginAllowedForContextLookupCall
    \/ Complete

SpecLookup == InitLookup /\ [][NextLookup]_vars

-----------------------------------------------------------------------------
(* Sequences of calls of every operation on one request *)

FrameFields ==
    (<<"header", <<"authorization">>>> :> {Str(<<"Bearer", " ", "h1">>)})
    @@ (<<"header", <<"origin">>>> :> {Str(AdminUrl)})
    @@ (<<"header", <<"x-auth-context">>>> :> {Str(Customer)})
    @@ CookieField(CookieNameTemplate(Customer, Access))
    @@ SetCookieField(CookieNameTemplate(Admin, Access))
    @@ SetCookieField(CookieNameTemplate(Vendor, Refresh))
    @@ SetCookieField(<<"accessToken">>)

FrameRequests ==
    OddRequests \cup {Request(f) : f \in UpTo(MaxFields, FrameFields)}

InitFrame ==
    /\ req \in FrameRequests
    /\ call = Idle
    /\ ret = NoOutcome

NextFrame ==
    \/ ResolveAuthContextCall
    \/ GetCookieNameCall
    \/ ExtractContextTokenCall
    \/ ExtractTokenFromAllContextsCall
    \/ ExtractContextTokensCall
    \/ ExtractTokenCall
    \/ ExtractTokenWithContextCall
    \/ Complete

SpecFrame == InitFrame /\ [][NextFrame]_vars

-----------------------------------------------------------------------------
(* What the claims speak of *)

Header(name) == OptGet(Get(req, <<"headers">>), <<name>>)
Cookie(name) == OptGet(Get(req, <<"cookies">>), name)

IsRequestObject == req.t = "object"

\* the option of the current call, undefined when it is not given
CallOption(key) ==
    IF call.options = Undefined THEN Undefined ELSE Get(call.options, <<key>>)

CallTokenType ==
    IF CallOption("tokenType") = Undefined THEN Access
    ELSE CallOption("tokenType").s

CallPreferContext ==
    CallOption("preferContext") \in {Undefined, Bool(TRUE)}

\* the positions of the characters of the authorization header that follow
\* "Bearer " and are not white space
BearerInk ==
    {i \in 3..Len(Header("authorization").s) :
        Header("authorization").s[i] \notin WhiteSpace}

\* the authorization header is a string that starts with "Bearer " and
\* whose remainder is not empty after trimming
UsableBearer ==
    /\ IsString(Header("authorization"))
    /\ Len(Header("authorization").s) >= 2
    /\ Header("authorization").s[1] = "Bearer"
    /\ Header("authorization").s[2] = " "
    /\ BearerInk # {}

Least(S) == CHOOSE i \in S : \A j \in S : i <= j
Greatest(S) == CHOOSE i \in S : \A j \in S : i >= j

\* the remainder of a usable header, from its first to its last
\* character that is not white space
TrimmedRemainder ==
    SubSeq(Header("authorization").s, Least(BearerInk), Greatest(BearerInk))

\* the context cookie of the call's token type
ContextCookie(context) ==
    Cookie(context \o <<"_">> \o CallTokenType \o <<"_token">>)

FromCookie(token, context) ==
    Return([token |-> token, source |-> Str(<<"cookie">>), context |-> context])

\* C1: whenever the request is an object whose authorization header is a
\* string starting with "Bearer " with a remainder that is not empty after
\* trimming, extractToken returns the trimmed remainder with source
\* "header" and no context, whatever the cookies, the origin, referer and
\* x-auth-context headers and the options are.
C1_BearerOutranksCookies ==
    (call.op = "extractToken" /\ IsRequestObject /\ UsableBearer)
        => ret = Return([token |-> Str(TrimmedRemainder),
                         source |-> Str(<<"header">>),
                         context |-> Null])

\* a usable Bearer header together with a truthy cookie and an origin that
\* resolves to a context
C1_Witness ==
    /\ call.op = "extractToken"
    /\ IsRequestObject
    /\ UsableBearer
    /\ Header("origin") = Str(AdminUrl)
    /\ Truthy(Cookie(CookieNameTemplate(Admin, Access)))
    /\ CallOption("tokenType") = Undefined
    /\ CallOption("contextOrigins") = Undefined
    /\ Returned(ret)

\* C2: whenever extractTokenWithContext(req, C, {tokenType: T}) returns a
\* result with source "cookie", the result's context is C and its token is
\* the value of the cookie named C_T_token of the request.
C2_OnlyExpectedContextCookie ==
    (/\ call.op = "extractTokenWithContext"
     /\ Returned(ret)
     /\ ret.value.source = Str(<<"cookie">>))
        => /\ ret.value.context = call.expectedContext
           /\ IsString(call.expectedContext)
           /\ ret.value.token = ContextCookie(call.expectedContext.s)

\* the expected context's cookie is returned while another context's
\* cookie of the same token type is truthy too
C2_Witness ==
    /\ call.op = "extractTokenWithContext"
    /\ call.expectedContext = Str(Admin)
    /\ Returned(ret)
    /\ ret.value.source = Str(<<"cookie">>)
    /\ Truthy(ContextCookie(Customer))

\* C3: every result returned by extractToken and extractTokenWithContext
\* has no source and no context when it has no token, has no context when
\* its source is "header", and has source "header" or "cookie" when it has
\* a token.
C3_ResultShape ==
    (call.op \in {"extractToken", "extractTokenWithContext"} /\ Returned(ret))
        => /\ ret.value.token = Null
                => (ret.value.source = Null /\ ret.value.context = Null)
           /\ ret.value.source = Str(<<"header">>) => ret.value.context = Null
           /\ ret.value.token # Null
                => ret.value.source \in {Str(<<"header">>), Str(<<"cookie">>)}

\* a token found in a legacy cookie: a token, source "cookie", no context
C3_Witness ==
    /\ call.op = "extractToken"
    /\ Returned(ret)
    /\ ret.value.token # Null
    /\ ret.value.source = Str(<<"cookie">>)
    /\ ret.value.context = Null

\* the context resolveAuthContext gives the request under the call's
\* nodeEnv and contextOrigins
ResolvedContext ==
    resolveAuthContext(req, Obj((<<"nodeEnv">> :> CallOption("nodeEnv"))
                                @@ (<<"contextOrigins">> :>
                                        CallOption("contextOrigins"))))

DefaultOrder == <<Customer, Vendor, Admin>>

\* the context-specific step of extractToken finds a token
ContextStepHits ==
    /\ CallPreferContext
    /\ Returned(ResolvedContext)
    /\ \E i \in 1..3 :
         /\ ResolvedContext.value = Str(DefaultOrder[i])
         /\ Truthy(ContextCookie(DefaultOrder[i]))

\* C4: with no usable Bearer header and preferContext true, when
\* resolveAuthContext resolves the request to customer, vendor or admin
\* and that context's cookie of the token type is truthy, extractToken
\* returns that cookie with source "cookie" and that context, whatever
\* other cookies are present.
C4_ResolvedContextCookie ==
    (call.op = "extractToken" /\ IsRequestObject /\ ~UsableBearer
     /\ ContextStepHits)
        => ret = FromCookie(ContextCookie(ResolvedContext.value.s),
                            ResolvedContext.value)

\* the origin resolves to admin, the admin cookie is returned while the
\* customer cookie, earlier in the default order, is truthy too
C4_Witness ==
    /\ call.op = "extractToken"
    /\ IsRequestObject
    /\ ~UsableBearer
    /\ ContextStepHits
    /\ ResolvedContext.value = Str(Admin)
    /\ Truthy(ContextCookie(Customer))
    /\ Returned(ret)
    /\ ret.value.context = Str(Admin)

\* the positions, in the default order, of the contexts whose cookie of
\* the token type is truthy
TruthyContexts == {i \in 1..3 : Truthy(ContextCookie(DefaultOrder[i]))}

\* C5: with no usable Bearer header, when the context-specific step yields
\* no token, extractToken returns the cookie of the first context in the
\* order customer, vendor, admin whose cookie of the token type is truthy,
\* with source "cookie" and that context; only when there is none does the
\* result carry no context (a legacy cookie, or nothing).
C5_AllContextFallback ==
    (call.op = "extractToken" /\ IsRequestObject /\ ~UsableBearer
     /\ ~ContextStepHits)
        => IF TruthyContexts # {}
           THEN ret = FromCookie(
                        ContextCookie(DefaultOrder[Least(TruthyContexts)]),
                        Str(DefaultOrder[Least(TruthyContexts)]))
           ELSE Returned(ret) /\ ret.value.context = Null

\* the origin resolves to admin whose cookie is empty; the vendor cookie is
\* returned although the admin origin was resolved
C5_Witness ==
    /\ call.op = "extractToken"
    /\ IsRequestObject
    /\ CallPreferContext
    /\ Returned(ResolvedContext)
    /\ ResolvedContext.value = Str(Admin)
    /\ ContextCookie(Admin) = EmptyStr
    /\ Truthy(ContextCookie(Vendor))
    /\ Returned(ret)
    /\ ret.value.context = Str(Vendor)

\* the legacy cookie names of the call's token type, in probing order
LegacyOrder ==
    << CallTokenType \o <<"Token">>,
       CallTokenType,
       CallTokenType \o <<"_token">>,
       <<"access", "Token">>,
       <<"access", "_token">> >>

TruthyLegacy == {i \in 1..5 : Truthy(Cookie(LegacyOrder[i]))}

\* C6: with no usable Bearer header and no truthy context cookie of the
\* token type, extractToken returns the first truthy cookie among
\* {tokenType}Token, {tokenType}, {tokenType}_token, accessToken,
\* access_token, in that order, with source "cookie" and no context, for
\* every token type; when none is truthy the result is all null.
C6_LegacyOrder ==
    (call.op = "extractToken" /\ IsRequestObject /\ ~UsableBearer
     /\ TruthyContexts = {})
        => IF TruthyLegacy # {}
           THEN ret = FromCookie(Cookie(LegacyOrder[Least(TruthyLegacy)]), Null)
           ELSE ret = Return(NoToken)

\* for token type refresh the fixed names are probed, accessToken before
\* access_token
C6_Witness ==
    /\ call.op = "extractToken"
    /\ IsRequestObject
    /\ CallTokenType = Refresh
    /\ Truthy(Cookie(<<"access", "Token">>))
    /\ Truthy(Cookie(<<"access", "_token">>))
    /\ Returned(ret)
    /\ ret.value.token = Cookie(<<"access", "Token">>)

\* the request without one of its headers
Without(name) ==
    IF req.t = "object" /\ Get(req, <<"headers">>).t = "object"
    THEN Obj([req.props EXCEPT ![<<"headers">>] =
                Obj([k \in DOMAIN @.props \ {<<name>>} |-> @.props[k]])])
    ELSE req

\* the origin table and the environment the current call works with
CallTable ==
    IF CallOption("contextOrigins") = Undefined THEN DEFAULT_CONTEXT_ORIGINS
    ELSE CallOption("contextOrigins")

CallNodeEnv ==
    IF CallOption("nodeEnv") = Undefined THEN Str(<<"production">>)
    ELSE CallOption("nodeEnv")

TableKeys == {CallTable.entries[i].key : i \in 1..Len(CallTable.entries)}

\* the context the table gives a header's URL, null when there is none
MatchOf(header) ==
    IF Truthy(header) THEN getContextFromOrigin(header, CallTable).value
    ELSE Null

\* the referer header, or the referrer header when referer is absent or
\* empty
RefererHeader ==
    IF Truthy(Header("referer")) THEN Header("referer") ELSE Header("referrer")

\* C7: resolveAuthContext returns the context matched from the origin
\* header whatever the other headers say; when the origin header is
\* absent, unparseable or not in the table, the context matched from the
\* referer header (the referrer header when there is no referer); when
\* neither matched, the x-auth-context override; otherwise null.
C7_StrictOrder ==
    (call.op = "resolveAuthContext" /\ IsRequestObject)
        => ret = Return(
             IF MatchOf(Header("origin")) # Null THEN MatchOf(Header("origin"))
             ELSE IF MatchOf(RefererHeader) # Null THEN MatchOf(RefererHeader)
             ELSE IF /\ CallNodeEnv = Str(<<"development">>)
                     /\ IsString(Header("x-auth-context"))
                     /\ Header("x-auth-context").s \in TableKeys
             THEN Header("x-auth-context")
             ELSE Null)

\* the origin matches admin while the referer matches vendor and, in
\* development, x-auth-context names customer: admin is returned
C7_Witness ==
    /\ call.op = "resolveAuthContext"
    /\ Header("origin") = Str(AdminUrl)
    /\ Header("referer") = Str(VendorPage)
    /\ Header("x-auth-context") = Str(Customer)
    /\ CallNodeEnv = Str(<<"development">>)
    /\ CallOption("contextOrigins") = Undefined
    /\ ret = Return(Str(Admin))

\* C8: when nodeEnv is not exactly "development", resolveAuthContext gives
\* the request the result it gives the same request without its
\* x-auth-context header; in development, when the header changes the
\* result, the result is the header's value and a key of the origin table
\* in use.
C8_OverrideOnlyInDevelopment ==
    call.op = "resolveAuthContext"
        => /\ CallNodeEnv # Str(<<"development">>)
                => ret = resolveAuthContext(Without("x-auth-context"),
                                            call.options)
           /\ (/\ CallNodeEnv = Str(<<"development">>)
               /\ ret # resolveAuthContext(Without("x-auth-context"),
                                           call.options))
                => /\ ret = Return(Header("x-auth-context"))
                   /\ IsString(Header("x-auth-context"))
                   /\ Header("x-auth-context").s \in TableKeys

\* outside development a valid x-auth-context header is ignored
C8_Witness ==
    /\ call.op = "resolveAuthContext"
    /\ IsRequestObject
    /\ Header("x-auth-context") = Str(Customer)
    /\ CallNodeEnv = Str(<<"test">>)
    /\ Header("origin") = Undefined
    /\ Header("referer") = Undefined
    /\ Header("referrer") = Undefined
    /\ ret = Return(Null)

\* the origin header has a value that is not a string or cannot be parsed
\* as a URL
UnparseableOrigin ==
    /\ Truthy(Header("origin"))
    /\ ~IsString(Header("origin")) \/ ~UrlParses(Header("origin").s)

\* C9: given an origin header that is not a string or cannot be parsed as
\* a URL, resolveAuthContext does not raise and returns what the referer
\* step, the development override and the final null give the request
\* without its origin header.
C9_UnparseableOriginFallsThrough ==
    (call.op = "resolveAuthContext" /\ IsRequestObject /\ UnparseableOrigin)
        => /\ Returned(ret)
           /\ ret = resolveAuthContext(Without("origin"), call.options)

\* an unparseable origin, and the referer decides
C9_Witness ==
    /\ call.op = "resolveAuthContext"
    /\ IsRequestObject
    /\ Header("origin") = Str(<<"not a url">>)
    /\ Header("referer") = Str(VendorPage)
    /\ CallOption("contextOrigins") = Undefined
    /\ ret = Return(Str(Vendor))

NonEmptyString(v) == IsString(v) /\ Len(v.s) > 0

\* the token type getCookieName works with: "access" when omitted
NameTokenType ==
    IF call.tokenType = Undefined THEN Str(Access) ELSE call.tokenType

\* C10: getCookieName(context, tokenType) returns
\* "{context}_{tokenType}_token" when both arguments are non-empty strings
\* (tokenType being "access" when omitted), and raises an error when
\* either is not a non-empty string.
C10_CookieName ==
    call.op = "getCookieName"
        => IF NonEmptyString(call.context) /\ NonEmptyString(NameTokenType)
           THEN ret = Return(Str(call.context.s \o <<"_">> \o NameTokenType.s
                                 \o <<"_token">>))
           ELSE ret.kind = "throw"

\* a name is returned for an omitted token type
C10_Witness ==
    /\ call.op = "getCookieName"
    /\ call.context = Str(Vendor)
    /\ call.tokenType = Undefined
    /\ ret = Return(Str(<<"vendor", "_", "access", "_token">>))

\* an error is raised for a token type that is not a string
C10_WitnessRaise ==
    /\ call.op = "getCookieName"
    /\ call.context = Str(Vendor)
    /\ call.tokenType = Num(7)
    /\ ret.kind = "throw"

ValidContextValues == {Str(Customer), Str(Vendor), Str(Admin)}

\* C11: extractContextToken returns null, without raising, for every
\* context that is not one of customer, vendor and admin (null, the empty
\* string and other strings included), whatever the cookies and the token
\* type.
C11_InvalidContextIsNull ==
    (call.op = "extractContextToken" /\ call.context \notin ValidContextValues)
        => ret = Return(Null)

\* the cookie named after a context outside the enum holds a token, and
\* null is returned
C11_Witness ==
    /\ call.op = "extractContextToken"
    /\ call.context = Str(Partner)
    /\ call.tokenType = Undefined
    /\ Truthy(Cookie(CookieNameTemplate(Partner, Access)))
    /\ ret = Return(Null)

\* the value of the cookie getCookieName names for the call
NamedCookie == Cookie(CookieNameTemplate(call.context.s, NameTokenType.s))

\* C12: for a context of the enum and a non-empty string token type,
\* extractContextToken returns exactly the value of the cookie that
\* getCookieName names when that value is a non-empty string, and null
\* when it is missing, empty or otherwise falsy.
C12_RoundTrip ==
    (/\ call.op = "extractContextToken"
     /\ call.context \in ValidContextValues
     /\ NonEmptyString(NameTokenType))
        => /\ NonEmptyString(NamedCookie) => ret = Return(NamedCookie)
           /\ ~Truthy(NamedCookie) => ret = Return(Null)

\* the cookie of a token type other than the default is returned
C12_Witness ==
    /\ call.op = "extractContextToken"
    /\ call.context = Str(Admin)
    /\ call.tokenType = Str(<<"password_reset">>)
    /\ ret = Return(TokenValue(CookieNameTemplate(Admin, <<"password_reset">>)))

\* a cookie that is falsy without being a string gives null
C12_WitnessFalsy ==
    /\ call.op = "extractContextToken"
    /\ call.context = Str(Customer)
    /\ call.tokenType = Undefined
    /\ NamedCookie = Num(0)
    /\ ret = Return(Null)

\* the token type extractTokenFromAllContexts works with
AllContextsTokenType ==
    IF call.tokenType = Undefined THEN Access ELSE call.tokenType.s

\* the positions of the contexts list that hold a valid context whose
\* cookie is truthy
TruthyListed ==
    {i \in 1..Len(call.contexts.items) :
        /\ call.contexts.items[i] \in ValidContextValues
        /\ Truthy(Cookie(CookieNameTemplate(call.contexts.items[i].s,
                                            AllContextsTokenType)))}

\* C13: given an explicit list of contexts, extractTokenFromAllContexts
\* returns the token and context of the first element of the list, elements
\* outside the enum dropped, whose cookie is truthy, and a null token and
\* context when there is none.
C13_ListOrder ==
    (call.op = "extractTokenFromAllContexts" /\ call.contexts.t = "array")
        => IF TruthyListed = {}
           THEN ret = Return([token |-> Null, context |-> Null])
           ELSE LET first == call.contexts.items[Least(TruthyListed)]
                IN  ret = Return(
                        [token |-> Cookie(CookieNameTemplate(
                                       first.s, AllContextsTokenType)),
                         context |-> first])

\* admin is listed before customer, both cookies hold a token, and admin's
\* is returned
C13_Witness ==
    /\ call.op = "extractTokenFromAllContexts"
    /\ call.contexts = Arr(<<Str(Admin), Str(Customer)>>)
    /\ Truthy(Cookie(CookieNameTemplate(Customer, Access)))
    /\ Truthy(Cookie(CookieNameTemplate(Admin, Access)))
    /\ ret = Return([token |-> TokenValue(CookieNameTemplate(Admin, Access)),
                     context |-> Str(Admin)])

\* elements outside the enum are dropped: the partner cookie holds a token
\* and the customer's is returned
C13_WitnessDropped ==
    /\ call.op = "extractTokenFromAllContexts"
    /\ call.contexts.t = "array"
    /\ Len(call.contexts.items) = 4
    /\ Truthy(Cookie(CookieNameTemplate(Partner, Access)))
    /\ ret.kind = "return"
    /\ ret.value.context = Str(Customer)

FromHeader(token) ==
    Return([token |-> token, source |-> Str(<<"header">>), context |-> Null])

\* the cookie named after the expected context and the call's token type
ExpectedCookie == ContextCookie(call.expectedContext.s)

C14_WitnessOutside ==
    /\ call.op = "extractTokenWithContext"
    /\ call.expectedContext = Str(Partner)
    /\ UsableBearer
    /\ Truthy(ExpectedCookie)
    /\ ret = FromHeader(Str(TrimmedRemainder))

\* the tokenTypes extractContextTokens works with: the default when omitted
CallTokenTypes == Default(call.tokenTypes, DefaultTokenTypes)

\* the string entries of the tokenTypes array
StringEntries ==
    {CallTokenTypes.items[i].s :
        i \in {j \in 1..Len(CallTokenTypes.items) :
                  IsString(CallTokenTypes.items[j])}}

\* what extractContextToken is specified to give for a token type: the
\* cookie's value, or null when it is missing
CookieOrNull(context, tokenType) ==
    IF Truthy(Cookie(CookieNameTemplate(context, tokenType)))
    THEN Cookie(CookieNameTemplate(context, tokenType))
    ELSE Null

\* C15: for a request object, a context of the enum and an array
\* tokenTypes, extractContextTokens returns a mapping whose keys are exactly
\* the string entries of tokenTypes, each mapped to the value of the
\* context's cookie of that type, or to null when the cookie is missing.
C15_TokensMapping ==
    (/\ call.op = "extractContextTokens"
     /\ IsRequestObject
     /\ call.context \in ValidContextValues
     /\ CallTokenTypes.t = "array")
        => /\ Returned(ret)
           /\ ret.value.t = "object"
           /\ DOMAIN ret.value.props = StringEntries
           /\ \A tokenType \in StringEntries :
                 ret.value.props[tokenType]
                     = CookieOrNull(call.context.s, tokenType)

\* C16: extractContextTokens returns an empty mapping whenever the request
\* is not an object, the context is not one of customer, vendor and admin
\* (null, the empty string and other strings included), or tokenTypes is
\* not an array.
C16_EmptyForInvalid ==
    (/\ call.op = "extractContextTokens"
     /\ \/ ~IsRequestObject
        \/ call.context \notin ValidContextValues
        \/ CallTokenTypes.t # "array")
        => ret = Return(Obj(NoProps))

\* C17: extractToken called with a request that is not an object (null,
\* undefined or a primitive) returns the all-null result, without raising,
\* for every value of options.
C17_NonObjectRequest ==
    (call.op = "extractToken" /\ ~IsRequestObject) => ret = Return(NoToken)

\* a null request with null options, which could not be destructured
C17_Witness ==
    /\ call.op = "extractToken"
    /\ req = Null
    /\ call.options = Null
    /\ ret = Return(NoToken)

\* C18: extractTokenWithContext called with a non-empty string
\* expectedContext and a request that is not an object (null and undefined
\* included) does not raise and returns the all-null result.
C18_NonObjectRequestWithContext ==
    (/\ call.op = "extractTokenWithContext"
     /\ NonEmptyString(call.expectedContext)
     /\ ~IsRequestObject)
        => ret = Return(NoToken)

\* C19: extractContextToken, extractTokenFromAllContexts, extractToken and
\* extractTokenWithContext never raise, whatever the shape of their
\* arguments and options: a token type that is not a non-empty string
\* yields a miss.
C19_OnlyNamingRaises ==
    call.op \in {"extractContextToken", "extractTokenFromAllContexts",
                 "extractToken", "extractTokenWithContext"}
        => Returned(ret)

\* the context the README's table gives for an origin
DocumentedContext(origin) ==
    Str(DocumentedOrigins[CHOOSE i \in 1..Len(DocumentedOrigins) :
                             Str(DocumentedOrigins[i].value) = origin].key)

\* C20: with no contextOrigins override, resolveAuthContext maps every
\* origin of the documented default table to its context
\* (https://customer.bizpickr.cloud and https://bizpickr.cloud to customer,
\* https://vendor.bizpickr.cloud to vendor, https://admin.bizpickr.cloud to
\* admin), and isOriginAllowedForContext allows
\* https://customer.bizpickr.cloud for customer.
C20_DocumentedDefaults ==
    /\ (/\ call.op = "resolveAuthContext"
        /\ IsRequestObject
        /\ CallOption("contextOrigins") = Undefined
        /\ Header("origin") \in DocumentedOriginValues)
           => ret = Return(DocumentedContext(Header("origin")))
    /\ (/\ call.op = "isOriginAllowedForContext"
        /\ call.contextOrigins = Undefined
        /\ call.origin = Str(Url("https", "customer.bizpickr.cloud"))
        /\ call.context = Str(Customer))
           => ret = Return(Bool(TRUE))

\* the outcome of the current call on the request without its
\* authorization header
WithoutAuthorization ==
    IF call.op = "extractToken"
    THEN extractToken(Without("authorization"), call.options)
    ELSE extractTokenWithContext(Without("authorization"),
                                 call.expectedContext, call.options)

\* the cookie of the expected context is found before the header is read
ExpectedCookieFound ==
    /\ call.op = "extractTokenWithContext"
    /\ call.expectedContext \in ValidContextValues
    /\ Truthy(ExpectedCookie)

\* C21: in extractToken and extractTokenWithContext the authorization
\* header counts only when it is a string that starts with exactly
\* "Bearer " and whose remainder is not empty after trimming: the token is
\* then the trimmed remainder, with source "header". Any other header
\* ("bearer x", "Basic x", a value that is not a string, nothing after the
\* prefix) is a miss: the call returns, without raising, what it returns
\* for the same request without the header, which is never a header token.
C21_BearerParsing ==
    (call.op \in {"extractToken", "extractTokenWithContext"})
        => IF ExpectedCookieFound
           THEN ret = FromCookie(ExpectedCookie, call.expectedContext)
           ELSE IF UsableBearer
           THEN ret = FromHeader(Str(TrimmedRemainder))
           ELSE /\ Returned(ret)
                /\ ret.value.source # Str(<<"header">>)
                /\ ret = WithoutAuthorization

\* white space around the token is trimmed, white space inside it is kept
C21_Witness ==
    /\ call.op = "extractToken"
    /\ Header("authorization")
         = Str(<<"Bearer", " ", " ", "\t", "h1", " ", "h2", "\t", " ">>)
    /\ ret = FromHeader(Str(<<"h1", " ", "h2">>))

\* a header with nothing but white space after the prefix is a miss, and
\* the cookie steps go on
C21_WitnessEmpty ==
    /\ call.op = "extractToken"
    /\ Header("authorization") = Str(<<"Bearer", " ", " ", "\t">>)
    /\ Returned(ret)
    /\ ret.value.source = Str(<<"cookie">>)

\* the prefix in lower case is a miss
C21_WitnessCase ==
    /\ call.op = "extractTokenWithContext"
    /\ Header("authorization") = Str(<<"bearer", " ", "h1">>)
    /\ ret = Return(NoToken)

\* the table of an isOriginAllowedForContext call
AllowedTable ==
    IF call.contextOrigins = Undefined THEN DEFAULT_CONTEXT_ORIGINS
    ELSE call.contextOrigins

\* an entry of a table lists exactly this origin string
Lists(entry, origin) ==
    IF entry.value.t = "array"
    THEN \E i \in 1..Len(entry.value.items) : entry.value.items[i] = Str(origin)
    ELSE entry.value = Str(origin)

\* the positions of the entries of a table that list the origin of a
\* header's URL
Listing(header, table) ==
    IF IsString(header) /\ UrlParses(header.s)
    THEN {i \in 1..Len(table.entries) :
             Lists(table.entries[i], UrlOrigin(header.s))}
    ELSE {}

FirstListing(header, table) ==
    Str(table.entries[Least(Listing(header, table))].key)

\* C22: when the table lists the origin of the origin header under two or
\* more contexts, resolveAuthContext returns the context inserted first
\* into the table among them; the same holds for the referer header when
\* the origin header matches nothing.
C22_FirstEntryWins ==
    (call.op = "resolveAuthContext" /\ IsRequestObject)
        => /\ Cardinality(Listing(Header("origin"), CallTable)) >= 2
                => ret = Return(FirstListing(Header("origin"), CallTable))
           /\ (/\ Listing(Header("origin"), CallTable) = {}
               /\ Cardinality(Listing(RefererHeader, CallTable)) >= 2)
                => ret = Return(FirstListing(RefererHeader, CallTable))

\* vendor, inserted first, wins over customer and admin at the origin step
C22_Witness ==
    /\ call.op = "resolveAuthContext"
    /\ CallOption("contextOrigins") = DuplicateOrigins
    /\ Header("origin") = Str(SharedUrl)
    /\ ret = Return(Str(Vendor))

\* admin, inserted first in the other table, wins at the referer step
C22_WitnessReferer ==
    /\ call.op = "resolveAuthContext"
    /\ CallOption("contextOrigins") = ReorderedOrigins
    /\ Listing(Header("origin"), CallTable) = {}
    /\ Header("referer") = Str(SharedUrl \o <<"/", "login">>)
    /\ ret = Return(Str(Admin))

\* the entries of the table of an isOriginAllowedForContext call whose key
\* is the call's context
ContextEntries ==
    {i \in 1..Len(AllowedTable.entries) :
        Str(AllowedTable.entries[i].key) = call.context}

\* C23: origin lookup matches by exact equality between the origin
\* component (scheme, host and port; path and query dropped) of the
\* header's URL and an origin of the table. resolveAuthContext, outside
\* development, returns a context exactly when the origin component of the
\* origin or the referer header equals a listed origin, and
\* isOriginAllowedForContext is true exactly when the origin component
\* equals an origin listed under the context: a URL that differs from a
\* listed origin by path only matches; a prefix, a sub-domain or a domain
\* suffix of a listed origin does not.
C23_ExactOriginMatch ==
    /\ (call.op = "resolveAuthContext" /\ IsRequestObject
            /\ CallNodeEnv # Str(<<"development">>))
         => (Returned(ret) /\ ret.value # Null)
                <=> \/ Listing(Header("origin"), CallTable) # {}
                    \/ Listing(RefererHeader, CallTable) # {}
    /\ (call.op = "isOriginAllowedForContext"
            /\ IsString(call.context) /\ IsString(call.origin))
         => ret = Return(Bool(Listing(call.origin, AllowedTable)
                                \cap ContextEntries # {}))

\* a URL that differs from a listed origin by its path and query matches
C23_Witness ==
    /\ call.op = "resolveAuthContext"
    /\ CallOption("contextOrigins") = Undefined
    /\ Header("origin") = Str(AdminUrl \o <<"/", "users", "?", "page=2">>)
    /\ ret = Return(Str(Admin))

\* a sub-domain of a listed origin does not match
C23_WitnessSubdomain ==
    /\ call.op = "isOriginAllowedForContext"
    /\ call.contextOrigins = Undefined
    /\ call.context = Str(Admin)
    /\ call.origin = Str(<<"https", "://", "evil", ".", "admin.example.com">>)
    /\ ret = Return(Bool(FALSE))

\* a domain suffix of a listed origin does not match, at either header
C23_WitnessSuffix ==
    /\ call.op = "resolveAuthContext"
    /\ CallOption("contextOrigins") = ShopOrigins
    /\ Header("origin") = Str(<<"https", "://", "partner.example.org">>)
    /\ Header("referer")
         = Str(<<"https", "://", "evil", ".", "admin.example.com">>)
    /\ ret = Return(Null)

\* a listed origin without its port, a prefix of the entry, does not match
C23_WitnessPrefix ==
    /\ call.op = "isOriginAllowedForContext"
    /\ call.contextOrigins = Undefined
    /\ call.context = Str(Admin)
    /\ call.origin = Str(Url("http", "localhost"))
    /\ ret = Return(Bool(FALSE))

\* the request resolves to a context outside customer, vendor and admin
ResolvesOutside ==
    /\ CallPreferContext
    /\ Returned(ResolvedContext)
    /\ ResolvedContext.value # Null
    /\ ResolvedContext.value \notin ValidContextValues

\* C24: every context carried by a result of extractToken or
\* extractTokenWithContext is null or one of customer, vendor and admin.
\* When resolveAuthContext resolves the request of extractToken to a custom
\* context outside that set, the cookie named after it is never returned:
\* with no usable Bearer header the result is that of the all-context
\* fallback, the first truthy context cookie in default order, and
\* otherwise a result without context.
C24_ContextInEnum ==
    (call.op \in {"extractToken", "extractTokenWithContext"} /\ Returned(ret))
        => /\ ret.value.context \in ValidContextValues \cup {Null}
           /\ (call.op = "extractToken" /\ IsRequestObject /\ ~UsableBearer
                   /\ ResolvesOutside)
                => /\ ret.value.token # ContextCookie(ResolvedContext.value.s)
                   /\ IF TruthyContexts # {}
                      THEN ret = FromCookie(
                               ContextCookie(DefaultOrder[Least(TruthyContexts)]),
                               Str(DefaultOrder[Least(TruthyContexts)]))
                      ELSE ret.value.context = Null

\* the origin resolves to the custom context partner, whose cookie holds a
\* token, and the vendor cookie is returned by the fallback
C24_Witness ==
    /\ call.op = "extractToken"
    /\ IsRequestObject
    /\ ~UsableBearer
    /\ CallPreferContext
    /\ ResolvedContext = Return(Str(Partner))
    /\ Header("origin") = Str(AdminUrl)
    /\ Truthy(ContextCookie(Partner))
    /\ Returned(ret)
    /\ ret.value.context = Str(Vendor)

\* the development override names partner, and the result has no context
C24_WitnessOverride ==
    /\ call.op = "extractToken"
    /\ IsRequestObject
    /\ CallNodeEnv = Str(<<"development">>)
    /\ Header("x-auth-context") = Str(Partner)
    /\ ResolvedContext = Return(Str(Partner))
    /\ Header("origin") = Undefined
    /\ Truthy(ContextCookie(Partner))
    /\ ret = Return(NoToken)

ContextHeaders ==
    {<<"origin">>, <<"referer">>, <<"referrer">>, <<"x-auth-context">>}

\* the request with the same authorization header and cookies and none of
\* the headers a context is resolved from
WithoutContextHeaders ==
    IF req.t = "object" /\ Get(req, <<"headers">>).t = "object"
    THEN Obj([req.props EXCEPT ![<<"headers">>] =
                Obj([k \in DOMAIN @.props \ ContextHeaders |-> @.props[k]])])
    ELSE req

\* the call's options without nodeEnv and contextOrigins
WithoutContextOptions ==
    Obj((<<"preferContext">> :> Bool(FALSE))
        @@ (<<"tokenType">> :> CallOption("tokenType")))

\* C25: with preferContext false the result of extractToken is the one of
\* the request that has the same authorization header and cookies and no
\* origin, referer, referrer or x-auth-context header, under options
\* without nodeEnv and contextOrigins; with no usable Bearer header and a
\* truthy context cookie it is the first one in the order customer,
\* vendor, admin.
C25_NoContextInfluence ==
    (call.op = "extractToken" /\ CallOption("preferContext") = Bool(FALSE))
        => /\ ret = extractToken(WithoutContextHeaders, WithoutContextOptions)
           /\ (IsRequestObject /\ ~UsableBearer /\ TruthyContexts # {})
                => ret = FromCookie(
                       ContextCookie(DefaultOrder[Least(TruthyContexts)]),
                       Str(DefaultOrder[Least(TruthyContexts)]))

\* the origin resolves to admin, the customer and admin cookies hold
\* tokens, and the customer cookie is returned
C25_Witness ==
    /\ call.op = "extractToken"
    /\ CallOption("preferContext") = Bool(FALSE)
    /\ Header("origin") = Str(AdminUrl)
    /\ ResolvedContext = Return(Str(Admin))
    /\ Truthy(ContextCookie(Admin))
    /\ Truthy(ContextCookie(Customer))
    /\ ret = FromCookie(ContextCookie(Customer), Str(Customer))

\* what an operation returns for a request and the arguments of a call
Outcome(c, request) ==
    CASE c.op = "resolveAuthContext" -> resolveAuthContext(request, c.options)
      [] c.op = "getCookieName" -> getCookieName(c.context, c.tokenType)
      [] c.op = "extractContextToken"
           -> extractContextToken(request, c.context, c.tokenType)
      [] c.op = "extractTokenFromAllContexts"
           -> extractTokenFromAllContexts(request, c.tokenType, c.contexts)
      [] c.op = "extractContextTokens"
           -> extractContextTokens(request, c.context, c.tokenTypes)
      [] c.op = "extractToken" -> extractToken(request, c.options)
      [] c.op = "extractTokenWithContext"
           -> extractTokenWithContext(request, c.expectedContext, c.options)
      [] OTHER -> NoOutcome

=============================================================================
